---- MODULE Spec2Model ----
(***************************************************************************)
(* Model of src/index.js (oraculo-libros): a timer that periodically runs  *)
(* runOnce, which picks a PDF, extracts its text, samples a paragraph      *)
(* window that the cheap junk filter accepts, asks a language model for a  *)
(* quote (at most 6 calls), appends the quote to a daily log and notifies. *)
(*                                                                         *)
(* Texts are run-length encoded: a text is a sequence of chunks            *)
(* [c |-> class, n |-> count], meaning n repetitions of a unit of class c: *)
(*   "a" lowercase letter     "A" uppercase letter     "d" decimal digit   *)
(*   "s" space   "t" tab   "r" carriage return   "n" newline               *)
(*   "k" the marker phrase "isbn"   "K" the same phrase in capitals "ISBN" *)
(* Letters of class "a"/"A" stand for prose that spells no marker phrase.  *)
(* A canonical text has no empty chunk and no two adjacent chunks of the   *)
(* same class, so equal strings have equal encodings.                      *)
(***************************************************************************)
EXTENDS Integers, Sequences, FiniteSets, TLC

----------------------------------------------------------------------------
(* Strings *)

\* number of characters of one unit of class c ("isbn" has four)
Width(c) == IF c \in {"k", "K"} THEN 4 ELSE 1

Chunk(c, n) == [c |-> c, n |-> n]

RECURSIVE Canon(_)
Canon(t) ==
    IF t = <<>> THEN <<>>
    ELSE LET h == Head(t)
             r == Canon(Tail(t))
         IN  IF h.n = 0 THEN r
             ELSE IF r # <<>> /\ r[1].c = h.c
                  THEN <<Chunk(h.c, h.n + r[1].n)>> \o Tail(r)
                  ELSE <<h>> \o r

\* String.prototype.length
RECURSIVE StrLen(_)
StrLen(t) == IF t = <<>> THEN 0 ELSE Head(t).n * Width(Head(t).c) + StrLen(Tail(t))

\* the class of the letters left when a marker phrase is cut in the middle
PartClass(c) == IF c = "k" THEN "a" ELSE IF c = "K" THEN "A" ELSE c

\* String.prototype.slice(0, m)
RECURSIVE Prefix(_, _)
Prefix(t, m) ==
    IF t = <<>> \/ m <= 0 THEN <<>>
    ELSE LET h == Head(t)
             w == Width(h.c)
         IN  IF h.n * w <= m
             THEN <<h>> \o Prefix(Tail(t), m - h.n * w)
             ELSE <<Chunk(h.c, m \div w), Chunk(PartClass(h.c), m % w)>>

Slice0(t, m) == Canon(Prefix(t, m))

\* String.prototype.toLowerCase
LowerClass(c) == IF c = "A" THEN "a" ELSE IF c = "K" THEN "k" ELSE c

ToLowerCase(t) == Canon([j \in DOMAIN t |-> Chunk(LowerClass(t[j].c), t[j].n)])

IsSpace(c) == c \in {"s", "t", "r", "n"}

\* String.prototype.trim
RECURSIVE TrimStart(_)
TrimStart(t) == IF t # <<>> /\ IsSpace(Head(t).c) THEN TrimStart(Tail(t)) ELSE t

RECURSIVE TrimEnd(_)
TrimEnd(t) ==
    IF t # <<>> /\ IsSpace(t[Len(t)].c) THEN TrimEnd(SubSeq(t, 1, Len(t) - 1)) ELSE t

Trim(t) == TrimEnd(TrimStart(t))

RECURSIVE Repeat(_, _)
Repeat(x, k) == IF k <= 0 THEN <<>> ELSE <<x>> \o Repeat(x, k - 1)

\* String.prototype.split(sep) for sep a run of w newlines (w = 1 or 2): the
\* pieces between successive non-overlapping separators, found left to right.
\* t is canonical; cur is the piece being read, out the pieces completed.
RECURSIVE SplitAcc(_, _, _, _)
SplitAcc(t, w, cur, out) ==
    IF t = <<>> THEN Append(out, cur)
    ELSE LET h == Head(t) IN
         IF h.c = "n" /\ h.n >= w
         THEN SplitAcc(Tail(t), w,
                       IF h.n % w = 0 THEN <<>> ELSE <<Chunk("n", h.n % w)>>,
                       Append(out, cur) \o Repeat(<<>>, (h.n \div w) - 1))
         ELSE SplitAcc(Tail(t), w, Append(cur, h), out)

Split(t, w) == SplitAcc(t, w, <<>>, <<>>)

\* Array.prototype.filter(Boolean) on an array of strings: drops the empty ones
RECURSIVE FilterNonEmpty(_)
FilterNonEmpty(ps) ==
    IF ps = <<>> THEN <<>>
    ELSE IF Head(ps) = <<>> THEN FilterNonEmpty(Tail(ps))
         ELSE <<Head(ps)>> \o FilterNonEmpty(Tail(ps))

\* Array.prototype.join("\n\n")
RECURSIVE Join(_)
Join(ps) ==
    IF ps = <<>> THEN <<>>
    ELSE IF Len(ps) = 1 THEN Head(ps)
         ELSE Canon(Head(ps) \o <<Chunk("n", 2)>> \o Join(Tail(ps)))

----------------------------------------------------------------------------
(* normalizeText *)

ReplaceCR(t) ==
    Canon([j \in DOMAIN t |-> IF t[j].c = "r" THEN Chunk("s", t[j].n) ELSE t[j]])

\* /[ \t]+/g -> " "
RECURSIVE CollapseBlanks(_)
CollapseBlanks(t) ==
    IF t = <<>> THEN <<>>
    ELSE LET h == Head(t)
             r == CollapseBlanks(Tail(t))
         IN  IF h.c \in {"s", "t"}
             THEN IF r # <<>> /\ r[1].c = "s" THEN r ELSE <<Chunk("s", 1)>> \o r
             ELSE <<h>> \o r

\* /\n{3,}/g -> "\n"
CollapseNewlines_ToOne(t) ==
    [j \in DOMAIN t |-> IF t[j].c = "n" /\ t[j].n >= 3 THEN Chunk("n", 1) ELSE t[j]]

\* /\n{3,}/g -> "\n\n"
CollapseNewlines(t) ==
    [j \in DOMAIN t |-> IF t[j].c = "n" /\ t[j].n >= 3 THEN Chunk("n", 2) ELSE t[j]]

normalizeText(t) == Trim(CollapseNewlines(CollapseBlanks(ReplaceCR(Canon(t)))))

----------------------------------------------------------------------------
(* looksLikeJunk *)

MinFragmentLen == 220
MaxDigitPercent == 8
MinTableLines == 8
ShortLineLen == 30
MaxShortLineTenths == 6

\* junkHints.some((h) => s.includes(h)): s holds a marker phrase
IncludesHint(s) == \E j \in DOMAIN s : s[j].c = "k"

\* (fragment.match(/\d/g) || []).length
RECURSIVE Digits(_)
Digits(t) ==
    IF t = <<>> THEN 0
    ELSE (IF Head(t).c = "d" THEN Head(t).n ELSE 0) + Digits(Tail(t))

\* fragment.split("\n").filter(Boolean)
Lines(t) == FilterNonEmpty(Split(t, 1))

ShortLines(ls) == Cardinality({j \in DOMAIN ls : StrLen(Trim(ls[j])) < ShortLineLen})

\* shortLines / lines.length >= 0.6
looksLikeJunk_ShortLinesAtLeast(fragment) ==
    LET s == ToLowerCase(fragment)
        lines == Lines(fragment)
    IN  \/ StrLen(fragment) < MinFragmentLen
        \/ IncludesHint(s)
        \/ Digits(fragment) * 100 > MaxDigitPercent * StrLen(fragment)
        \/ /\ Len(lines) >= MinTableLines
           /\ ShortLines(lines) * 10 >= MaxShortLineTenths * Len(lines)

looksLikeJunk(fragment) ==
    LET s == ToLowerCase(fragment)
        lines == Lines(fragment)
    IN  \/ StrLen(fragment) < MinFragmentLen
        \/ IncludesHint(s)
        \/ Digits(fragment) * 100 > MaxDigitPercent * StrLen(fragment)
        \/ /\ Len(lines) >= MinTableLines
           /\ ShortLines(lines) * 10 > MaxShortLineTenths * Len(lines)

----------------------------------------------------------------------------
(* pickFragment *)

MinTextLen == 800
MinParas == 5
MaxPickAttempts == 12
WindowParas == 3
MaxFragmentLen == 1600

\* the value null; no string is encoded with an empty chunk
Null == <<Chunk("null", 0)>>

\* text.split("\n\n").map((p) => p.trim()).filter(Boolean)
Paragraphs(text) ==
    LET ps == Split(text, 2)
    IN  FilterNonEmpty([j \in DOMAIN ps |-> Trim(ps[j])])

\* [paras[i], paras[i + 1], paras[i + 2]].filter(Boolean).join("\n\n"), with
\* i counted from 1: an index past the end yields undefined and is dropped
\* a window that goes on at the start of the document when it reaches the end
Window_Wraps(paras, i) ==
    Join([k \in 1..WindowParas |-> paras[((i + k - 2) % Len(paras)) + 1]])

Window(paras, i) ==
    Join(SubSeq(paras, i, IF i + WindowParas - 1 <= Len(paras)
                          THEN i + WindowParas - 1 ELSE Len(paras)))

\* the window left whole
Clipped_Whole(paras, i) == Window(paras, i)

Clipped(paras, i) == Slice0(Window(paras, i), MaxFragmentLen)

\* the early return on the length alone
TooSmall_LengthOnly(fullText) ==
    StrLen(normalizeText(fullText)) < MinTextLen

\* the two early returns of pickFragment
TooSmall(fullText) ==
    \/ StrLen(normalizeText(fullText)) < MinTextLen
    \/ Len(Paragraphs(normalizeText(fullText))) < MinParas

\* a sampling loop that returns the window without consulting the filter
Accepts_Always(clipped) == TRUE

\* if (!looksLikeJunk(clipped)) return clipped
Accepts(clipped) == ~looksLikeJunk(clipped)

\* what a call of pickFragment yields: the value returned, and the windows the
\* junk filter found usable on the way
Picked(fragment, clipped) ==
    [fragment |-> fragment,
     usable |-> IF clipped # Null /\ ~looksLikeJunk(clipped) THEN {clipped} ELSE {}]

\* the sampling loop from round attempt on, over every draw of Math.random:
\* a round returns the window drawn if the filter accepts it, and otherwise
\* leaves the result to the next round; after the last round, null
\* one round too many
PickGoesOn_OneMore(attempt) == attempt <= MaxPickAttempts

\* attempt < 12
PickGoesOn(attempt) == attempt < MaxPickAttempts

RECURSIVE PickFrom(_, _)
PickFrom(paras, attempt) ==
    IF ~PickGoesOn(attempt) THEN {Picked(Null, Null)}
    ELSE LET accepted == {i \in 1..Len(paras) : Accepts(Clipped(paras, i))}
         IN  {Picked(Clipped(paras, i), Clipped(paras, i)) : i \in accepted}
             \cup (IF accepted # 1..Len(paras)
                   THEN PickFrom(paras, attempt + 1) ELSE {})

pickFragment(fullText) ==
    IF TooSmall(fullText) THEN {Picked(Null, Null)}
    ELSE PickFrom(Paragraphs(normalizeText(fullText)), 0)

----------------------------------------------------------------------------
(* Inputs: the files of BOOKS_DIR, the texts pdf-parse extracts from them and *)
(* the answers of the language model                                          *)

\* the ticks of the interval timer that are followed
MaxTicks == 1

Runs == 1..(MaxTicks + 1)

Para(n) == <<Chunk("a", n)>>

\* five one-line paragraphs of 100 letters: 508 characters after normalizing
DocShort ==
    Para(100) \o <<Chunk("n", 2)>> \o Para(100) \o <<Chunk("n", 2)>> \o Para(100)
    \o <<Chunk("n", 2)>> \o Para(100) \o <<Chunk("n", 2)>> \o Para(100)

\* four paragraphs of 300 letters, padded with carriage returns and blank lines
DocFewParas ==
    <<Chunk("r", 2)>> \o Para(300) \o <<Chunk("n", 4)>> \o Para(300)
    \o <<Chunk("n", 2)>> \o Para(300) \o <<Chunk("n", 3)>> \o Para(300)
    \o <<Chunk("n", 1)>>

\* a paragraph that carries the marker phrase in capitals
ParaIsbn == <<Chunk("K", 1), Chunk("s", 1), Chunk("a", 295)>>

\* five paragraphs, each with a marker phrase
DocAllJunk ==
    ParaIsbn \o <<Chunk("n", 2)>> \o ParaIsbn \o <<Chunk("n", 2)>> \o ParaIsbn
    \o <<Chunk("n", 2)>> \o ParaIsbn \o <<Chunk("n", 2)>> \o ParaIsbn

\* front matter, a page of numbers, and 2000 characters of prose in the last
\* paragraph only, amid tabs, carriage returns and blank lines
DocMixed ==
    ParaIsbn \o <<Chunk("n", 2)>> \o ParaIsbn \o <<Chunk("n", 3)>> \o ParaIsbn
    \o <<Chunk("n", 2), Chunk("d", 300), Chunk("n", 2), Chunk("t", 2)>>
    \o <<Chunk("A", 1), Chunk("a", 998), Chunk("s", 2), Chunk("r", 1), Chunk("a", 1000)>>

\* parsed.text || "" is empty for a scanned book
DocEmpty == <<>>

\* the PDF files that BOOKS_DIR may hold
Books == {"empty.pdf", "short.pdf", "few.pdf", "junk.pdf", "mixed.pdf"}

\* parsed.text || "": the text pdf-parse extracts from a file
extractPdfText(bookName) ==
    CASE bookName = "empty.pdf" -> DocEmpty
      [] bookName = "short.pdf" -> DocShort
      [] bookName = "few.pdf" -> DocFewParas
      [] bookName = "junk.pdf" -> DocAllJunk
      [] bookName = "mixed.pdf" -> DocMixed

\* res.choices?.[0]?.message?.content?.trim() || "": the answers of the model
Responses ==
    {"SKIP", "no json", "{}", "{cita:''}", "{cita:'X'}", "{cita:'X',reflexion:'Y'}"}

----------------------------------------------------------------------------
(* safeJsonParse and the values it returns *)

\* the value undefined
Undefined == "<undefined>"

\* JSON.parse threw: safeJsonParse returns null
JsonNull == [null |-> "null"]

\* a parsed object is the function from its keys to their values
safeJsonParse(str) ==
    CASE str = "{}" -> [x \in {} |-> ""]
      [] str = "{cita:''}" -> [cita |-> ""]
      [] str = "{cita:'X'}" -> [cita |-> "X"]
      [] str = "{cita:'X',reflexion:'Y'}" -> [cita |-> "X", reflexion |-> "Y"]
      [] OTHER -> JsonNull

\* json?.f
Field(json, f) ==
    IF json # JsonNull /\ f \in DOMAIN json THEN json[f] ELSE Undefined

\* !v for v a string or undefined
Falsy(v) == v \in {Undefined, ""}

\* `${v}` in a template literal
Str(v) == IF v = Undefined THEN "undefined" ELSE v

----------------------------------------------------------------------------
(* State *)

VARIABLES
    booted,     \* startTimer has been called
    crashed,    \* a rejection escaped runOnce: the process has ended
    started,    \* the calls of runOnce so far
    ticks,      \* the timer callbacks that have fired
    run,        \* per call of runOnce: its position, its locals and what it has done
    log,        \* the entries appended to the daily file, oldest first
    tpc,        \* the text function under study and how far its call has come
    gen,        \* what the argument of that call was built from
    input,      \* the argument of that call
    output,     \* the text it returned
    verdict,    \* the answer of looksLikeJunk
    pick        \* the locals of a call of pickFragment

\* the state of the running program
svars == <<booted, crashed, started, ticks, run, log>>

\* the state of one call of a text function taken on its own
tvars == <<tpc, gen, input, output, verdict, pick>>

vars == <<svars, tvars>>

\* no call of pickFragment under study
NoPick == [pc |-> "off"]

\* no text function is under study while the program runs
TextOff ==
    /\ tpc = "off"
    /\ gen = <<>>
    /\ input = <<>>
    /\ output = <<>>
    /\ verdict = "none"
    /\ pick = NoPick

MaxModelCalls == 6

\* the notifications of runOnce
NoteNoPdfs == [kind |-> "noPdfs"]
NoteNoFragment(bookName) == [kind |-> "noFragment", bookName |-> bookName]
NoteSuccess(cita, reflexion, bookName) ==
    [kind |-> "success", cita |-> Str(cita), reflexion |-> Str(reflexion),
     bookName |-> bookName]
NoteExhausted(bookName) == [kind |-> "exhausted", bookName |-> bookName]
NoteError(step) == [kind |-> "error", message |-> step]

\* the entry saveQuoteToDailyMd appends (the time of day is left out)
Entry(cita, reflexion, bookName) ==
    [bookName |-> bookName, cita |-> Str(cita), reflexion |-> Str(reflexion)]

\* a call of runOnce that has not begun: pc "idle".  The locals are bookName,
\* fragment, i and out, with the fragments the junk filter has found usable
\* (usable) and those passed to the model (passed) in this call.  The rest
\* records what the call has done: its notifications, the number of its text
\* extractions, fragment selections, model calls and log entries, and the step
\* that threw, if any.
NewRun ==
    [pc |-> "idle", bookName |-> "", fragment |-> Null, i |-> 0, out |-> "",
     notes |-> <<>>, usable |-> {}, passed |-> {}, calls |-> 0,
     extracted |-> 0, selected |-> 0, appended |-> 0, failed |-> "none"]

\* the process before startTimer is called
NotBooted ==
    /\ booted = FALSE
    /\ crashed = FALSE
    /\ started = 0
    /\ ticks = 0
    /\ run = [r \in Runs |-> NewRun]
    /\ log = <<>>

Init == NotBooted /\ TextOff

\* the locals of a call that has returned are gone
Returned(rec) ==
    [rec EXCEPT !.pc = "done", !.bookName = "", !.fragment = Null, !.i = 0,
                !.out = "", !.usable = {}, !.passed = {}]

\* notifier.notify: the notification is raised
notify(rec, note) == [rec EXCEPT !.notes = Append(@, note)]

\* a return that raises no notification
Finish_Silent(rec, note) == Returned(rec)

\* notify(...); return
Finish(rec, note) == Returned(notify(rec, note))

\* a try block that ends before the call of saveQuoteToDailyMd
Caught_ExceptAppend(step) == step # "append"

\* the try block of runOnce encloses every step
Caught(step) == TRUE

\* a step throws: the catch clause notifies the error, or the rejection escapes
Throw(r, rec, step) ==
    IF Caught(step)
    THEN /\ run' = [run EXCEPT ![r] = Finish([rec EXCEPT !.failed = step], NoteError(step))]
         /\ crashed' = crashed
    ELSE /\ run' = [run EXCEPT ![r] = Returned([rec EXCEPT !.failed = step])]
         /\ crashed' = TRUE

\* await askGroqForQuote({ bookName, fragment }): the request is sent
askGroqForQuote(rec) ==
    [rec EXCEPT !.pc = "awaitModel", !.calls = @ + 1,
                !.passed = @ \cup {rec.fragment}]

----------------------------------------------------------------------------
(* runOnce *)

\* runOnce without the return after the notification that no PDF was found:
\* randomPick yields undefined, and path.basename(undefined) throws
RunOnceBegin_NoReturn(r, ls, rd) ==
    LET rec == run[r] IN
    IF ls = "throw" THEN Throw(r, rec, "list")
    ELSE IF ls = "empty"
    THEN Throw(r, notify(rec, NoteNoPdfs), "basename")
    ELSE LET chosen == [rec EXCEPT !.bookName = ls, !.extracted = @ + 1] IN
         IF rd = "throw" THEN Throw(r, chosen, "read")
         ELSE /\ run' = [run EXCEPT ![r] = [chosen EXCEPT !.pc = "awaitParse"]]
              /\ crashed' = crashed

\* runOnce up to its first await: listPdfs, randomPick, and extractPdfText up
\* to the call of pdfParse.  ls is what listPdfs does (it throws, finds no PDF,
\* or finds some, of which randomPick takes ls), rd what readFileSync does.
RunOnceBegin(r, ls, rd) ==
    LET rec == run[r] IN
    IF ls = "throw" THEN Throw(r, rec, "list")
    ELSE IF ls = "empty"
    THEN /\ run' = [run EXCEPT ![r] = Finish(rec, NoteNoPdfs)]
         /\ crashed' = crashed
    ELSE LET chosen == [rec EXCEPT !.bookName = ls, !.extracted = @ + 1] IN
         IF rd = "throw" THEN Throw(r, chosen, "read")
         ELSE /\ run' = [run EXCEPT ![r] = [chosen EXCEPT !.pc = "awaitParse"]]
              /\ crashed' = crashed

\* what listPdfs and readFileSync may do
listPdfs == {"throw", "empty"} \cup Books
Reads == {"throw", "ok"}

\* a timer that is cleared once a run has failed
TimerArmed_UntilFailure == booted /\ \A r \in Runs : run[r].failed = "none"

\* the interval set by startTimer is never cleared
TimerArmed == booted

\* runOnce() at once, then setInterval
startTimer ==
    /\ ~booted /\ ~crashed
    /\ booted' = TRUE
    /\ started' = 1
    /\ \E ls \in listPdfs, rd \in Reads : RunOnceBegin(1, ls, rd)
    /\ UNCHANGED <<ticks, log>>
    /\ UNCHANGED tvars

\* the callback of setInterval: runOnce(), whatever the earlier calls are doing
Tick ==
    /\ TimerArmed /\ ~crashed
    /\ ticks < MaxTicks
    /\ ticks' = ticks + 1
    /\ started' = started + 1
    /\ \E ls \in listPdfs, rd \in Reads : RunOnceBegin(started + 1, ls, rd)
    /\ UNCHANGED <<booted, log>>
    /\ UNCHANGED tvars

\* pdfParse rejects
ParseFails(r) ==
    /\ ~crashed
    /\ run[r].pc = "awaitParse"
    /\ Throw(r, run[r], "parse")
    /\ UNCHANGED <<booted, started, ticks, log>>
    /\ UNCHANGED tvars

\* runOnce without the test of the fragment
NoFragment_Never(fragment) == FALSE

\* if (!fragment)
NoFragment(fragment) == fragment = Null

\* pdfParse resolves with the text of the file and pickFragment yields picked:
\* the notification that no fragment was found, or the first request to the model
ParseGets(r, picked) ==
    /\ ~crashed
    /\ run[r].pc = "awaitParse"
    /\ LET rec == [run[r] EXCEPT !.fragment = picked.fragment,
                                 !.usable = picked.usable, !.selected = @ + 1]
       IN  run' = [run EXCEPT ![r] =
                     IF NoFragment(rec.fragment)
                     THEN Finish(rec, NoteNoFragment(rec.bookName))
                     ELSE askGroqForQuote([rec EXCEPT !.i = 0])]
    /\ UNCHANGED <<booted, crashed, started, ticks, log>>

\* what pickFragment may return for the text of each file
Picks == [bookName \in Books |-> pickFragment(extractPdfText(bookName))]

ParseReturns(r) ==
    /\ run[r].pc = "awaitParse"
    /\ \E picked \in Picks[run[r].bookName] : ParseGets(r, picked)
    /\ UNCHANGED tvars

\* the request of askGroqForQuote rejects
ModelFails(r) ==
    /\ ~crashed
    /\ run[r].pc = "awaitModel"
    /\ Throw(r, run[r], "model")
    /\ UNCHANGED <<booted, started, ticks, log>>
    /\ UNCHANGED tvars

\* the test of the quote inverted: if (json?.cita) continue
Continues_Inverted(out) ==
    out = "SKIP" \/ ~Falsy(Field(safeJsonParse(out), "cita"))

\* the test of the quote left out
Continues_SkipOnly(out) == out = "SKIP"

\* if (out === "SKIP") continue; ... if (!json?.cita) continue
Continues(out) == out = "SKIP" \/ Falsy(Field(safeJsonParse(out), "cita"))

\* a loop that goes on without a budget
LoopGoesOn_Always(i) == TRUE

\* break in the place of continue
LoopGoesOn_Never(i) == FALSE

\* i <= 6 in the place of i < 6
LoopGoesOn_OffByOne(i) == i + 1 <= MaxModelCalls

\* i++ ; i < 6
LoopGoesOn(i) == i + 1 < MaxModelCalls

\* the success notification raised before the entry is written
AppendFailed_NotifiedFirst(rec, cita, reflexion) ==
    notify(rec, NoteSuccess(cita, reflexion, rec.bookName))

\* saveQuoteToDailyMd throws: the call is left before notify is reached
AppendFailed(rec, cita, reflexion) == rec

\* askGroqForQuote resolves with out: the rest of the round of the loop, up to
\* the next request, or to the return.  ok tells whether saveQuoteToDailyMd
\* manages to write, in the rounds that call it.
ModelGets(r, out, ok) ==
    /\ ~crashed
    /\ run[r].pc = "awaitModel"
    /\ LET rec == [run[r] EXCEPT !.out = out]
           json == safeJsonParse(out)
           cita == Field(json, "cita")
           reflexion == Field(json, "reflexion")
       IN  IF Continues(out)
           THEN /\ run' = [run EXCEPT ![r] =
                     IF LoopGoesOn(rec.i)
                     THEN askGroqForQuote([rec EXCEPT !.i = @ + 1])
                     ELSE Finish(rec, NoteExhausted(rec.bookName))]
                /\ UNCHANGED <<crashed, log>>
           ELSE IF ok
           THEN /\ log' = Append(log, Entry(cita, reflexion, rec.bookName))
                /\ run' = [run EXCEPT ![r] =
                     Finish([rec EXCEPT !.appended = @ + 1],
                            NoteSuccess(cita, reflexion, rec.bookName))]
                /\ crashed' = crashed
           ELSE /\ Throw(r, AppendFailed(rec, cita, reflexion), "append")
                /\ log' = log
    /\ UNCHANGED <<booted, started, ticks>>

ModelReturns(r) ==
    /\ \E out \in Responses, ok \in BOOLEAN :
          /\ Continues(out) => ok
          /\ ModelGets(r, out, ok)
    /\ UNCHANGED tvars

Next ==
    \/ startTimer
    \/ Tick
    \/ \E r \in Runs : ParseFails(r)
    \/ \E r \in Runs : ParseReturns(r)
    \/ \E r \in Runs : ModelFails(r)
    \/ \E r \in Runs : ModelReturns(r)

Spec == Init /\ [][Next]_vars

\* every pending call of pdfParse and every pending request to the model
\* eventually resolves or rejects
Settles(r) == ParseFails(r) \/ ParseReturns(r) \/ ModelFails(r) \/ ModelReturns(r)

SpecFair == Spec /\ \A r \in Runs : WF_vars(Settles(r))

----------------------------------------------------------------------------
(* normalizeText, called on its own *)

MaxNormChunks == 3

\* the lengths of the runs of one character in the texts tried
RunLengths == {1, 2, 3, 5}

NormClasses == {"a", "s", "t", "r", "n"}

NormChunks == {Chunk(c, n) : c \in NormClasses, n \in RunLengths}

\* texts with a run of newlines at both ends and between words and blanks
NormEdgeCases ==
    { <<Chunk("n", 3), Chunk("a", 2), Chunk("n", 5), Chunk("a", 1), Chunk("n", 3)>>,
      <<Chunk("a", 2), Chunk("s", 2), Chunk("n", 4), Chunk("t", 1), Chunk("a", 1)>>,
      <<Chunk("s", 1), Chunk("n", 3), Chunk("r", 1), Chunk("n", 3), Chunk("a", 1)>>,
      <<Chunk("a", 1), Chunk("n", 3), Chunk("a", 1), Chunk("n", 4), Chunk("s", 1)>> }

NormInputs ==
    {<<>>} \cup NormEdgeCases \cup
    UNION {[1..m -> NormChunks] : m \in 1..MaxNormChunks}

NormInit ==
    /\ NotBooted
    /\ tpc = "normalize"
    /\ gen \in NormInputs
    /\ input = Canon(gen)
    /\ output = <<>>
    /\ verdict = "none"
    /\ pick = NoPick

\* one call normalizeText(input)
Normalize ==
    /\ tpc = "normalize"
    /\ tpc' = "normalized"
    /\ output' = normalizeText(input)
    /\ UNCHANGED <<gen, input, verdict, pick>>
    /\ UNCHANGED svars

NormNext == Normalize

SpecNormalize == NormInit /\ [][NormNext]_vars

----------------------------------------------------------------------------
(* Properties *)

\* the call r of runOnce has begun and has not returned
InProgress(r) == run[r].pc \in {"awaitParse", "awaitModel"}

\* a step of the call r while it awaits the model: an answer, or a failure
AnswerStep(r) == run[r].pc = "awaitModel" /\ run'[r] # run[r]

\* the kinds of the notifications that the call r has raised
Kinds(r) == {run[r].notes[j].kind : j \in DOMAIN run[r].notes}

\* C1: at any time at most one call of runOnce is in progress, also when a
\* run lasts longer than the interval between two ticks.
C1_AtMostOneRunInProgress ==
    Cardinality({r \in Runs : InProgress(r)}) <= 1

\* C2: every fragment passed to the model was found usable by looksLikeJunk
\* earlier in the same run, and no model call is made before pickFragment has
\* returned a fragment that is not null.
C2_OnlyUsableFragmentsSent ==
    \A r \in Runs :
        /\ run[r].passed \subseteq run[r].usable
        /\ run[r].pc = "awaitModel" =>
              /\ run[r].fragment # Null
              /\ run[r].passed = {run[r].fragment}
              /\ run[r].selected = 1
        /\ run[r].calls > 0 => run[r].selected = 1
        /\ run[r].pc \in {"idle", "awaitParse"} => run[r].calls = 0

C2_Witness ==
    \E r \in Runs :
        /\ run[r].pc = "awaitModel" /\ run[r].calls >= 2
        /\ run[r].fragment \in run[r].usable
        /\ StrLen(run[r].fragment) = MaxFragmentLen

\* C3: a failure of any step of a run (the directory listing, the read or the
\* text extraction of the PDF, a model call, the log append) is caught in that
\* run, which ends with one error notification; no failure escapes runOnce,
\* ends the process or stops the timer.
C3_FailuresAreContained ==
    /\ ~crashed
    /\ booted => TimerArmed
    /\ \A r \in Runs :
          run[r].failed # "none" =>
              /\ run[r].pc = "done"
              /\ run[r].notes = <<[kind |-> "error", message |-> run[r].failed]>>

C3_Witness ==
    /\ ~crashed
    /\ run[1].failed = "append" /\ run[1].pc = "done"
    /\ run[2].failed \in {"list", "read", "parse", "model"}

\* C4: startTimer starts one run at once and every tick of the interval
\* starts one more, from a fresh state and leaving the other runs alone;
\* while the process lives the next tick can always fire, whatever the outcome
\* of the runs before it.
C4_EveryTickStartsARun ==
    /\ [](booted => started = ticks + 1 /\ run[1].pc # "idle")
    /\ [](booted /\ ticks < MaxTicks => ENABLED Tick)
    /\ [][ticks' # ticks =>
             /\ ticks' = ticks + 1
             /\ started' = started + 1
             /\ run[started'] = NewRun
             /\ run'[started'].pc # "idle"
             /\ \A r \in Runs \ {started'} : run'[r] = run[r]]_vars

C4_Witness ==
    /\ ticks = 1
    /\ run[1].failed # "none"
    /\ run[2].pc = "awaitModel"

\* the answer parses as JSON and has the key cita
HasCitaField(out) ==
    safeJsonParse(out) # JsonNull /\ "cita" \in DOMAIN safeJsonParse(out)

\* the answer parses as JSON and has a key cita whose value is not empty
HasQuote(out) == HasCitaField(out) /\ safeJsonParse(out).cita # ""

\* the value of the key reflexion as the entry and the notification show it
ShownReflexion(out) ==
    IF "reflexion" \in DOMAIN safeJsonParse(out)
    THEN safeJsonParse(out).reflexion ELSE "undefined"

\* C5 as claimed: the first answer that parses as JSON with a cita field ends
\* the loop; the run appends exactly one log entry, raises exactly one
\* success notification with the quote and the reflection, and makes no
\* further model call.
C5_QuoteFieldEndsRunWithEntry ==
    [][\A r \in Runs : AnswerStep(r) => \A out \in Responses, ok \in BOOLEAN :
          HasCitaField(out) /\ ModelGets(r, out, ok) =>
              /\ run'[r].pc = "done"
              /\ run'[r].calls = run[r].calls
              /\ Len(log') = Len(log) + 1
              /\ run'[r].appended = 1
              /\ run'[r].notes =
                    <<[kind |-> "success", cita |-> safeJsonParse(out).cita,
                       reflexion |-> ShownReflexion(out),
                       bookName |-> run[r].bookName]>>]_vars

\* C5 as amended: the first answer that parses as JSON with a cita field
\* that is not empty ends the loop, and no further model call is made; when
\* the append succeeds the run appends exactly one log entry and raises
\* exactly one success notification with the quote and the reflexion of that
\* answer; when the append fails nothing is appended and the run raises one
\* error notification and no success notification.  An answer whose cita is
\* empty does not end the loop: nothing is appended and the next attempt is made.
C5_QuoteEndsLoop ==
    [][\A r \in Runs : AnswerStep(r) => \A out \in Responses, ok \in BOOLEAN :
          HasCitaField(out) /\ ModelGets(r, out, ok) =>
          /\ HasQuote(out) =>
              /\ run'[r].pc = "done"
              /\ run'[r].calls = run[r].calls
              /\ ok =>
                    /\ log' = Append(log, [bookName |-> run[r].bookName,
                                           cita |-> safeJsonParse(out).cita,
                                           reflexion |-> ShownReflexion(out)])
                    /\ run'[r].appended = run[r].appended + 1
                    /\ run'[r].notes =
                          <<[kind |-> "success", cita |-> safeJsonParse(out).cita,
                             reflexion |-> ShownReflexion(out),
                             bookName |-> run[r].bookName]>>
              /\ ~ok =>
                    /\ log' = log
                    /\ run'[r].appended = run[r].appended
                    /\ run'[r].notes = <<[kind |-> "error", message |-> "append"]>>
          /\ ~HasQuote(out) =>
              /\ log' = log
              /\ run'[r].appended = run[r].appended
              /\ "success" \notin Kinds(r)'
              /\ run[r].i + 1 < MaxModelCalls => run'[r].pc = "awaitModel"]_vars

C5_Witness ==
    \E r \in Runs :
        /\ run[r].pc = "done" /\ run[r].calls >= 2 /\ run[r].appended = 1
        /\ Len(log) >= 1
        /\ run[r].notes =
              <<[kind |-> "success", cita |-> "X", reflexion |-> "Y",
                 bookName |-> "mixed.pdf"]>>

\* C6: an answer equal to SKIP appends no log entry and raises no success
\* notification; when fewer than 6 attempts have been made the loop goes on
\* and the next model call is made with the same fragment, which never
\* changes between the attempts of a run.
C6_SkipRetriesSameFragment ==
    [][\A r \in Runs :
          /\ AnswerStep(r) => \A ok \in BOOLEAN :
                ModelGets(r, "SKIP", ok) =>
                    /\ log' = log
                    /\ run'[r].appended = run[r].appended
                    /\ "success" \notin Kinds(r)'
                    /\ run[r].i + 1 < MaxModelCalls =>
                          /\ run'[r].pc = "awaitModel"
                          /\ run'[r].i = run[r].i + 1
                          /\ run'[r].calls = run[r].calls + 1
                          /\ run'[r].fragment = run[r].fragment
                          /\ run'[r].passed = {run[r].fragment}
                          /\ run'[r].notes = run[r].notes
          /\ run[r].pc = "awaitModel" /\ run'[r].pc = "awaitModel" =>
                run'[r].fragment = run[r].fragment]_vars

C6_Witness ==
    \E r \in Runs :
        /\ run[r].pc = "awaitModel" /\ run[r].out = "SKIP"
        /\ run[r].i >= 1 /\ run[r].calls = run[r].i + 1
        /\ run[r].passed = {run[r].fragment}
        /\ run[r].notes = <<>>

\* the answer is not SKIP, and does not parse as JSON or parses without cita
SoftFailure(out) == out # "SKIP" /\ ~HasCitaField(out)

\* C7: an answer that does not parse as JSON, or parses without a cita field,
\* consumes exactly one of the 6 attempts, appends no log entry and raises no
\* success and no error notification; while attempts are left it raises no
\* notification at all and the next attempt is made, and after the sixth
\* attempt the run ends with the soft notification alone.
C7_SoftFailureConsumesOneAttempt ==
    [][\A r \in Runs : AnswerStep(r) => \A out \in Responses, ok \in BOOLEAN :
          SoftFailure(out) /\ ModelGets(r, out, ok) =>
              /\ log' = log
              /\ run'[r].appended = run[r].appended
              /\ run'[r].failed = "none"
              /\ Kinds(r)' \subseteq {"exhausted"}
              /\ IF run[r].i + 1 < MaxModelCalls
                 THEN /\ run'[r].pc = "awaitModel"
                      /\ run'[r].i = run[r].i + 1
                      /\ run'[r].calls = run[r].calls + 1
                      /\ run'[r].notes = <<>>
                 ELSE /\ run'[r].pc = "done"
                      /\ run'[r].calls = run[r].calls
                      /\ Kinds(r)' = {"exhausted"}]_vars

C7_Witness ==
    /\ run[1].pc = "awaitModel" /\ run[1].out = "no json" /\ run[1].i = 1
    /\ run[2].pc = "awaitModel" /\ run[2].out = "{}" /\ run[2].i = 2
    /\ log = <<>>

\* the answer is SKIP or a soft failure
SkipOrSoft(out) == out = "SKIP" \/ SoftFailure(out)

\* C8: a run makes at most 6 model calls; when all 6 answers are SKIP or soft
\* failures the run ends with the soft notification that attempts are
\* exhausted, with no log entry and no error notification.
C8_AtMostSixCalls ==
    /\ [](\A r \in Runs :
            /\ run[r].calls <= MaxModelCalls
            /\ "exhausted" \in Kinds(r) =>
                  /\ run[r].pc = "done"
                  /\ run[r].calls = MaxModelCalls
                  /\ Len(run[r].notes) = 1
                  /\ run[r].appended = 0
                  /\ run[r].failed = "none")
    /\ [][\A r \in Runs : AnswerStep(r) => \A out \in Responses, ok \in BOOLEAN :
             run[r].calls = MaxModelCalls /\ SkipOrSoft(out) /\ ModelGets(r, out, ok) =>
                 /\ run'[r].pc = "done"
                 /\ run'[r].notes =
                       <<[kind |-> "exhausted", bookName |-> run[r].bookName]>>
                 /\ run'[r].calls = MaxModelCalls
                 /\ log' = log]_vars

C8_Witness ==
    \E r \in Runs :
        /\ run[r].pc = "done" /\ run[r].calls = MaxModelCalls
        /\ run[r].notes = <<[kind |-> "exhausted", bookName |-> "mixed.pdf"]>>
        /\ run[r].appended = 0

\* a call that has done nothing but raise the notification note
OnlyNotified(note) == [NewRun EXCEPT !.pc = "done", !.notes = <<note>>]

\* C9: when the directory holds no PDF the run ends with one soft notification
\* and nothing else: no text extraction, no fragment selection, no model call,
\* no log append.
C9_NoPdfsEndsRun ==
    /\ [](\A r \in Runs :
            "noPdfs" \in Kinds(r) => run[r] = OnlyNotified([kind |-> "noPdfs"]))
    /\ [][\A r \in Runs, rd \in Reads :
             started' = r /\ started = r - 1 /\ RunOnceBegin(r, "empty", rd) =>
                 /\ run'[r] = OnlyNotified([kind |-> "noPdfs"])
                 /\ log' = log]_vars

C9_Witness ==
    /\ run[1] = OnlyNotified([kind |-> "noPdfs"])
    /\ ticks = 1 /\ run[2].pc = "awaitParse"

\* C10: when pickFragment returns null the run ends with one soft
\* notification: no model call, no log entry, no error notification.
C10_NoFragmentEndsRun ==
    /\ [](\A r \in Runs :
            "noFragment" \in Kinds(r) =>
                /\ run[r].pc = "done"
                /\ Len(run[r].notes) = 1
                /\ run[r].calls = 0
                /\ run[r].appended = 0
                /\ run[r].failed = "none")
    /\ [][\A r \in Runs :
             run[r].pc = "awaitParse" /\ run'[r] # run[r] =>
                 \A picked \in Picks[run[r].bookName] :
                     ParseGets(r, picked) /\ picked.fragment = Null =>
                         /\ run'[r].pc = "done"
                         /\ run'[r].notes =
                               <<[kind |-> "noFragment", bookName |-> run[r].bookName]>>
                         /\ run'[r].calls = 0
                         /\ log' = log]_vars

C10_Witness ==
    \E r \in Runs :
        /\ run[r].pc = "done" /\ run[r].selected = 1
        /\ run[r].notes = <<[kind |-> "noFragment", bookName |-> "mixed.pdf"]>>

\* the answer parses as JSON with both a quote and a reflexion
HasBoth(out) == HasQuote(out) /\ "reflexion" \in DOMAIN safeJsonParse(out)

\* C17: every log entry carries a quote and a reflection taken from the
\* answer that ended the loop: no entry is appended for an answer that lacks
\* either field.
C17_EntryHasQuoteAndReflexion ==
    [][\A r \in Runs : AnswerStep(r) => \A out \in Responses, ok \in BOOLEAN :
          ModelGets(r, out, ok) =>
              /\ ~HasBoth(out) => log' = log
              /\ log' # log =>
                    log' = Append(log, [bookName |-> run[r].bookName,
                                        cita |-> safeJsonParse(out).cita,
                                        reflexion |-> safeJsonParse(out).reflexion])]_vars

\* C18: a success notification is raised only in a run whose log append has
\* completed, the entry being in the log by then; when the append fails the
\* run raises one error notification and no success notification.
C18_AppendBeforeSuccess ==
    \A r \in Runs :
        /\ "success" \in Kinds(r) =>
              /\ run[r].appended = 1
              /\ run[r].failed = "none"
              /\ \E j \in DOMAIN log :
                    /\ log[j].cita = run[r].notes[1].cita
                    /\ log[j].reflexion = run[r].notes[1].reflexion
                    /\ log[j].bookName = run[r].notes[1].bookName
        /\ run[r].failed = "append" =>
              /\ run[r].appended = 0
              /\ Kinds(r) = {"error"}
        /\ Len(log) = run[1].appended + run[2].appended
                      + (IF 3 \in Runs THEN run[3].appended ELSE 0)

C18_Witness ==
    /\ run[1].failed = "append" /\ Kinds(1) = {"error"}
    /\ "success" \in Kinds(2) /\ run[2].appended = 1
    /\ Len(log) = 1

\* the kinds of notification that runOnce raises
NoteKinds == {"noPdfs", "noFragment", "success", "exhausted", "error"}

\* C19: every run that has ended has raised exactly one notification, of one
\* of the five kinds; a run that has not ended has raised none.
C19_ExactlyOneNotification ==
    \A r \in Runs :
        /\ run[r].pc = "done" => Len(run[r].notes) = 1 /\ Kinds(r) \subseteq NoteKinds
        /\ run[r].pc # "done" => run[r].notes = <<>>

C19_Witness ==
    /\ run[1].pc = "done" /\ run[2].pc = "done"
    /\ Kinds(1) = {"exhausted"} /\ Kinds(2) = {"noPdfs"}

\* the steps that the call r can still take: the text extraction and the
\* rounds of the loop that are left
StepsLeft(r) ==
    CASE run[r].pc = "awaitParse" -> MaxModelCalls + 1
      [] run[r].pc = "awaitModel" -> MaxModelCalls - run[r].i
      [] OTHER -> 0

\* C20: every run that has started reaches a terminal outcome, given that
\* every text extraction and every model call returns or fails: no run stays
\* in progress for ever, a run is in progress exactly while it has steps
\* left, and each step of a run uses up one of its at most 1 + 6 steps.
C20_EveryRunEnds ==
    /\ \A r \in Runs : []<>(~InProgress(r))
    /\ [][\A r \in Runs :
             run'[r] # run[r] /\ run[r].pc # "idle" =>
                 /\ StepsLeft(r)' < StepsLeft(r)
                 /\ StepsLeft(r)' >= 0]_vars
    /\ [](\A r \in Runs : StepsLeft(r) > 0 <=> InProgress(r))

C20_Witness ==
    /\ run[1].pc = "done" /\ run[1].calls = MaxModelCalls
    /\ run[2].pc = "done" /\ run[2].selected = 1 /\ run[2].calls = 0

----------------------------------------------------------------------------
(* looksLikeJunk, called on its own *)

MaxGenLines == 10

\* the fragments tried: lines of letters, the first short of them 29 letters
\* long after pad blanks and the others long letters long, sep newlines between
\* two lines; the last line starts with digits and, if hint is not "", with a
\* marker phrase in small letters ("k") or in capitals ("K")
JunkGens ==
    [lines : 1..MaxGenLines, short : 0..MaxGenLines, pad : {0, 3},
     long : {30, 40, 219, 220}, sep : {1, 2},
     digits : {"none", "limit", "over"}, hint : {"", "k", "K"}]

GenShortLen == 29

\* the length of the fragment built from g
GenLen(g) ==
    g.short * (g.pad + GenShortLen) + (g.lines - g.short) * g.long
    + g.sep * (g.lines - 1)

\* the letters, digits and marker of its last line
GenLastLen(g) == IF g.short = g.lines THEN GenShortLen ELSE g.long

GenHintLen(g) == IF g.hint = "" THEN 0 ELSE 4

\* the digits of the fragment built from g: none, as many as make 8 percent
\* of its length (rounded down) or one more, if the last line has the room
GenDigits(g) ==
    LET want == CASE g.digits = "none" -> 0
                  [] g.digits = "limit" -> (MaxDigitPercent * GenLen(g)) \div 100
                  [] g.digits = "over" -> (MaxDigitPercent * GenLen(g)) \div 100 + 1
        room == GenLastLen(g) - GenHintLen(g)
    IN  IF want <= room THEN want ELSE room

GenLine(g, j) ==
    (IF j <= g.short THEN <<Chunk("s", g.pad)>> ELSE <<>>)
    \o (IF j = g.lines
        THEN <<Chunk("d", GenDigits(g)),
               Chunk(IF g.hint = "" THEN "a" ELSE g.hint, IF g.hint = "" THEN 0 ELSE 1),
               Chunk("a", GenLastLen(g) - GenHintLen(g) - GenDigits(g))>>
        ELSE <<Chunk("a", IF j <= g.short THEN GenShortLen ELSE g.long)>>)
    \o (IF j < g.lines THEN <<Chunk("n", g.sep)>> ELSE <<>>)

RECURSIVE GenLinesFrom(_, _)
GenLinesFrom(g, j) == IF j > g.lines THEN <<>> ELSE GenLine(g, j) \o GenLinesFrom(g, j + 1)

GenFragment(g) == Canon(GenLinesFrom(g, 1))

JunkInit ==
    /\ NotBooted
    /\ tpc = "classify"
    /\ gen \in {g \in JunkGens : g.short <= g.lines}
    /\ input = GenFragment(gen)
    /\ output = <<>>
    /\ verdict = "none"
    /\ pick = NoPick

\* one call looksLikeJunk(input)
Classify ==
    /\ tpc = "classify"
    /\ tpc' = "classified"
    /\ verdict' = IF looksLikeJunk(input) THEN "junk" ELSE "usable"
    /\ UNCHANGED <<gen, input, output, pick>>
    /\ UNCHANGED svars

JunkNext == Classify

SpecClassify == JunkInit /\ [][JunkNext]_vars

----------------------------------------------------------------------------
(* pickFragment, called on its own and followed round by round *)

MaxDocParas == 5

\* the paragraphs the documents tried are made of: prose of 157 and of 158
\* letters, prose of 1000 letters, and 300 characters that start with a
\* marker phrase
ParaKinds == {"a", "b", "L", "J"}

ParaOf(kind) ==
    CASE kind = "a" -> <<Chunk("a", 157)>>
      [] kind = "b" -> <<Chunk("a", 158)>>
      [] kind = "L" -> <<Chunk("a", 1000)>>
      [] kind = "J" -> <<Chunk("k", 1), Chunk("a", 296)>>

DocGens == UNION {[1..m -> ParaKinds] : m \in 0..MaxDocParas}

\* the text extracted from a document of these paragraphs: each but the last
\* is followed by a blank and three newlines, and the whole starts with a
\* carriage return and a newline and ends with a newline
RECURSIVE DocBody(_)
DocBody(g) ==
    IF g = <<>> THEN <<>>
    ELSE ParaOf(Head(g))
         \o (IF Len(g) > 1 THEN <<Chunk("s", 1), Chunk("n", 3)>> ELSE <<>>)
         \o DocBody(Tail(g))

DocText(g) == Canon(<<Chunk("r", 1), Chunk("n", 1)>> \o DocBody(g) \o <<Chunk("n", 1)>>)

\* the locals of pickFragment before its first statement
PickEntered ==
    [pc |-> "start", paras |-> <<>>, attempt |-> 0, i |-> 0, window |-> <<>>,
     clipped |-> <<>>, sampled |-> 0, junked |-> 0, ret |-> <<>>]

PickInit ==
    /\ NotBooted
    /\ tpc = "pick"
    /\ gen \in DocGens
    /\ input = DocText(gen)
    /\ output = <<>>
    /\ verdict = "none"
    /\ pick = PickEntered

\* the statements before the loop: the two early returns, or the paragraphs
PickStart ==
    /\ tpc = "pick" /\ pick.pc = "start"
    /\ output' = normalizeText(input)
    /\ pick' = IF TooSmall(input)
               THEN [pick EXCEPT !.pc = "done", !.ret = Null]
               ELSE [pick EXCEPT !.pc = "loop",
                                 !.paras = Paragraphs(normalizeText(input))]
    /\ UNCHANGED <<tpc, gen, input, verdict>>
    /\ UNCHANGED svars

\* one round of the loop, Math.random having drawn the index i (from 1)
PickRound(i) ==
    /\ tpc = "pick" /\ pick.pc = "loop"
    /\ PickGoesOn(pick.attempt)
    /\ i \in 1..Len(pick.paras)
    /\ LET window == Window(pick.paras, i)
           clipped == Clipped(pick.paras, i)
           drawn == [pick EXCEPT !.i = i, !.window = window, !.clipped = clipped,
                                 !.sampled = @ + 1]
       IN  /\ pick' = IF Accepts(clipped)
                      THEN [drawn EXCEPT !.pc = "done", !.ret = clipped]
                      ELSE [drawn EXCEPT !.attempt = @ + 1, !.junked = @ + 1]
           /\ verdict' = IF looksLikeJunk(clipped) THEN "junk" ELSE "usable"
    /\ UNCHANGED <<tpc, gen, input, output>>
    /\ UNCHANGED svars

\* the return null after the loop
PickGivesUp ==
    /\ tpc = "pick" /\ pick.pc = "loop"
    /\ ~PickGoesOn(pick.attempt)
    /\ pick' = [pick EXCEPT !.pc = "done", !.ret = Null]
    /\ UNCHANGED <<tpc, gen, input, output, verdict>>
    /\ UNCHANGED svars

PickNext ==
    \/ PickStart
    \/ \E i \in 1..(MaxDocParas + 1) : PickRound(i)
    \/ PickGivesUp

SpecPick == PickInit /\ [][PickNext]_vars

----------------------------------------------------------------------------
(* Properties of normalizeText *)

\* no three newlines in a row
NoLongRun(t) == \A j \in DOMAIN t : t[j].c = "n" => t[j].n < 3

\* the places of the runs of three or more newlines of t
LongRuns(t) == {j \in DOMAIN t : t[j].c = "n" /\ t[j].n >= 3}

Before(t, j) == SubSeq(t, 1, j - 1)

After(t, j) == SubSeq(t, j + 1, Len(t))

HasWord(t) == \E j \in DOMAIN t : ~IsSpace(t[j].c)

\* a text with its blanks and newlines collapsed, its ends left as they are
Squeezed(t) == CollapseNewlines(CollapseBlanks(ReplaceCR(Canon(t))))

\* out is the text t with two newlines in the place of its run j, what is
\* before and after that run being normalised around it
TwoNewlinesAt(t, j, out) ==
    out = Canon(TrimStart(Squeezed(Before(t, j))) \o <<Chunk("n", 2)>>
                \o TrimEnd(Squeezed(After(t, j))))

\* C15 as stated: the output has no run of three or more newlines, and it
\* has exactly two newlines in the place of every such run of the input.
C15_EveryLongRunBecomesTwo ==
    tpc = "normalized" =>
        /\ NoLongRun(output)
        /\ \A j \in LongRuns(input) : TwoNewlinesAt(input, j, output)

\* C15: the output of normalizeText has no run of three or more newlines; it
\* has exactly two newlines in the place of every such run of the input that
\* has a character other than white space somewhere before it and somewhere
\* after it, and nothing in the place of a run that has none on one side,
\* which the final trim removes with the white space around it.
C15_InnerLongRunsBecomeTwo ==
    tpc = "normalized" =>
        /\ NoLongRun(output)
        /\ \A j \in LongRuns(input) :
              IF HasWord(Before(input, j)) /\ HasWord(After(input, j))
              THEN TwoNewlinesAt(input, j, output)
              ELSE output = normalizeText(Before(input, j) \o After(input, j))

C15_Witness ==
    /\ tpc = "normalized"
    /\ input = <<Chunk("n", 3), Chunk("a", 2), Chunk("n", 5), Chunk("a", 1), Chunk("n", 3)>>
    /\ output = <<Chunk("a", 2), Chunk("n", 2), Chunk("a", 1)>>

----------------------------------------------------------------------------
(* Properties of looksLikeJunk *)

\* the four rules, on what the fragment was built from
RuleTooShort(g) == GenLen(g) < 220

RuleMarker(g) == g.hint # ""

RuleDigits(g) == GenDigits(g) * 100 > 8 * GenLen(g)

RuleLineShape(g) == g.lines >= 8 /\ g.short * 10 > 6 * g.lines

\* C14: looksLikeJunk answers junk exactly when the fragment is shorter than
\* 220 characters, or holds a marker phrase in small letters or capitals, or
\* has more than 8 percent of digits, or has 8 or more non-empty lines of
\* which more than 60 percent are shorter than 30 characters once trimmed;
\* 10 lines under 30 characters are junk, and 10 lines of 40 characters or
\* more are not rejected for their shape.
C14_JunkExactlyWhenARuleMatches ==
    tpc = "classified" =>
        /\ StrLen(input) = GenLen(gen)
        /\ verdict = "junk" <=>
              \/ RuleTooShort(gen)
              \/ RuleMarker(gen)
              \/ RuleDigits(gen)
              \/ RuleLineShape(gen)
        /\ gen.lines = 10 /\ gen.short = 10 => verdict = "junk"
        /\ /\ gen.lines = 10 /\ gen.short = 0 /\ gen.long >= 40
           /\ gen.hint = "" /\ gen.digits # "over"
           => verdict = "usable"

C14_Witness ==
    /\ tpc = "classified"
    /\ gen.lines = 10 /\ gen.short = 6 /\ gen.long = 40 /\ gen.pad = 3
    /\ gen.hint = "" /\ gen.digits = "limit" /\ gen.sep = 1
    /\ GenDigits(gen) > 0
    /\ verdict = "usable"

----------------------------------------------------------------------------
(* Properties of pickFragment *)

KindLen(kind) ==
    CASE kind = "a" -> 157 [] kind = "b" -> 158 [] kind = "L" -> 1000 [] kind = "J" -> 300

RECURSIVE SumLen(_)
SumLen(g) == IF g = <<>> THEN 0 ELSE KindLen(Head(g)) + SumLen(Tail(g))

\* the length of the normalised text of the document built from g: its
\* paragraphs, and a blank and two newlines between two of them
KnownLen(g) == SumLen(g) + (IF Len(g) > 1 THEN 3 * (Len(g) - 1) ELSE 0)

PickDone == tpc = "pick" /\ pick.pc = "done"

\* before the first round, the values that the rounds can return are those
\* that pickFragment, taken as one step, returns for the document
SameAsInOneStep ==
    LET whole == {p.fragment : p \in pickFragment(input)}
        drawn == {Clipped(pick.paras, i) : i \in 1..Len(pick.paras)}
    IN  IF pick.pc = "done" THEN whole = {pick.ret}
        ELSE whole = {c \in drawn : Accepts(c)}
                     \cup (IF \E c \in drawn : ~Accepts(c) THEN {Null} ELSE {})

\* C11: pickFragment returns null without sampling any window for every
\* document whose normalised text is shorter than 800 characters, whatever
\* the number of its paragraphs, and for every document with fewer than 5
\* non-empty paragraphs, whatever its length.
C11_SmallDocumentsAreNotSampled ==
    PickDone =>
        /\ StrLen(output) = KnownLen(gen)
        /\ KnownLen(gen) < 800 \/ Len(gen) < 5 =>
              /\ pick.ret = Null
              /\ pick.sampled = 0

C11_Witness ==
    /\ PickDone
    /\ gen = <<"L", "a", "J", "L">>
    /\ pick.ret = Null /\ pick.sampled = 0

\* C12: the loop samples at most 12 windows; it returns the first window
\* that the filter finds usable, sampling no other after it; having entered
\* the loop it returns null exactly when it has sampled 12 windows and found
\* all of them junk, as it does when every paragraph holds a marker phrase.
C12_FirstUsableOrNullAfterTwelve ==
    tpc = "pick" =>
        /\ pick.sampled <= 12
        /\ pick.junked \in {pick.sampled, pick.sampled - 1}
        /\ pick.pc = "loop" => pick.junked = pick.sampled
        /\ pick.pc = "done" /\ pick.paras # <<>> =>
              /\ pick.ret # Null =>
                    /\ pick.ret = pick.clipped
                    /\ ~looksLikeJunk(pick.clipped)
                    /\ pick.junked = pick.sampled - 1
              /\ pick.ret = Null <=> pick.sampled = 12 /\ pick.junked = 12
              /\ (\A j \in DOMAIN gen : gen[j] = "J") => pick.ret = Null
        /\ pick.sampled = 0 /\ pick.pc # "start" => SameAsInOneStep

C12_Witness ==
    /\ PickDone
    /\ gen = <<"L", "L", "a", "a", "J">>
    /\ pick.sampled = 12 /\ pick.junked = 11
    /\ pick.i = 1 /\ pick.ret = pick.clipped

\* C13: a fragment that pickFragment returns has at least 220 and at most
\* 1600 characters.
C13_FragmentLengthWithinLimits ==
    PickDone /\ pick.ret # Null =>
        /\ StrLen(pick.ret) >= 220
        /\ StrLen(pick.ret) <= 1600

C13_Witness ==
    /\ PickDone
    /\ gen = <<"L", "L", "a", "a", "J">>
    /\ pick.i = 1
    /\ StrLen(pick.window) = 2161
    /\ StrLen(pick.ret) = 1600

\* the lesser of two numbers
Min(a, b) == IF a <= b THEN a ELSE b

\* C16: the window sampled at the index i (counted from 0) of n paragraphs
\* is made of the paragraphs i, i + 1 and i + 2 that exist, in the order of
\* the document: min(3, n - i) of them, none taken from the start of the
\* document when the index is the last or the one before it.
C16_WindowIsConsecutiveParagraphs ==
    tpc = "pick" /\ pick.sampled > 0 =>
        LET n == Len(pick.paras)
            i == pick.i - 1
            got == Split(pick.window, 2)
        IN  /\ i \in 0..(n - 1)
            /\ Len(got) = Min(3, n - i)
            /\ \A k \in 1..Len(got) : got[k] = ParaOf(gen[i + k])

C16_Witness ==
    /\ tpc = "pick" /\ pick.sampled > 0
    /\ gen = <<"L", "b", "a", "J", "b">>
    /\ pick.i = 4
    /\ pick.window = <<Chunk("k", 1), Chunk("a", 296), Chunk("n", 2), Chunk("a", 158)>>

====
